---------------------------- MODULE Spec2Model ----------------------------
(* StudyTime (src/main.py): the sqlite store (meta_info, dim_subject,      *)
(* fact_session), the schema manager run at start-up and the subject       *)
(* screens (add / edit dialogs over the subjects table).                   *)
(*                                                                         *)
(* Names are sequences of characters, so that str.strip() and str.lower()  *)
(* are computed, not assumed.  Timestamps are the readings of a clock that *)
(* advances between two readings (datetime.now at microsecond resolution,  *)
(* read in handlers separated by user interaction); isoformat() is         *)
(* injective on them and is left implicit.                                 *)
EXTENDS Naturals, Sequences, FiniteSets

VARIABLES
    tables,         \* names listed in sqlite_master
    meta_info,      \* rows of meta_info: <<key, value>>
    dim_subject,    \* rows of dim_subject, in rowid (insertion) order
    fact_session,   \* rows of fact_session
    raw_settings,   \* the settings file config.json, as found by this run
    config,         \* the Config object built from it
    version,        \* Database.version, as configured for this run
    screen,         \* "off", "failed", "MainMenu", "Subjects", "Add", "Edit", "Crashed"
    table,          \* rows of the DataTable #subjects-table
    hi,             \* SubjectsScreen.current_hi_row / _key / _name
    sort_priority,  \* SubjectsScreen.sort_priority (<<>> is None)
    clock,          \* last reading of datetime.now
    notice,         \* the notification raised by the last handler
    last,           \* history: the last handler run, its input, and the
                    \* tables that existed when it started
    renamed         \* history: the last successful rename: the name the
                    \* subject had before it, and the time of the rename

vars == <<tables, meta_info, dim_subject, fact_session, raw_settings,
          config, version, screen,
          table, hi, sort_priority, clock, notice, last, renamed>>

store == <<tables, meta_info, dim_subject, fact_session>>

settings == <<raw_settings, config>>

Last(op, value) == [op |-> op, value |-> value, pre |-> tables]

NoRename == [from |-> <<>>, at |-> 0]

-----------------------------------------------------------------------------
(* Bounds *)

MaxLen == 2
MaxSubjects == 2
MaxIds == 2
MaxTime == 3
MaxVersion == 2

Chars == {" ", "a", "A", "b"}
Ids == 1..MaxIds
Versions == 1..MaxVersion

RECURSIVE SeqsUpTo(_)
SeqsUpTo(n) ==
    IF n = 0 THEN {<<>>}
    ELSE LET shorter == SeqsUpTo(n - 1)
         IN  shorter \cup {Append(s, c) : s \in shorter, c \in Chars}

\* What the user may type in the Input of a dialog.
Inputs == SeqsUpTo(MaxLen)

-----------------------------------------------------------------------------
(* str.strip, str.lower, str(int), int(str) *)

IsSpace(c) == c = " "

RECURSIVE LStrip(_)
LStrip(s) ==
    IF s = <<>> THEN s
    ELSE IF IsSpace(Head(s)) THEN LStrip(Tail(s)) ELSE s

RECURSIVE RStrip(_)
RStrip(s) ==
    IF s = <<>> THEN s
    ELSE IF IsSpace(s[Len(s)]) THEN RStrip(SubSeq(s, 1, Len(s) - 1)) ELSE s

StripLeftOnly(s) == LStrip(s)

Strip(s) == RStrip(LStrip(s))

LowerChar(c) == IF c = "A" THEN "a" ELSE c

Lower(s) == [i \in 1..Len(s) |-> LowerChar(s[i])]

\* str(n) for the version numbers of the model, and int() back.
Str(n) == <<"0", "1", "2", "3", "4", "5", "6", "7", "8", "9">>[n + 1]

Int(s) == CHOOSE n \in 0..9 : Str(n) = s


-----------------------------------------------------------------------------
(* The store: Database *)

DefaultVersion == 1

RequiredTables == {"meta_info", "dim_subject", "fact_session"}

\* db_write_meta_info: CREATE TABLE meta_info, then INSERT ("Version", str(version)).
DbWriteMetaInfo(v) == << <<"Version", Str(v)>> >>

\* SELECT value FROM meta_info WHERE key = 'Version'
MetaInfoVersionCheck(rows) ==
    LET keep(r) == r[1] = "Version"
    IN  SelectSeq(rows, keep)

\* db_validate_meta_info: raise unless (len(check) or int(check[0][0]) == version).
\* `or` evaluates its right operand only when len(check) is 0, and then
\* check[0] does not exist.
DbValidateMetaInfo(rows, v) ==
    LET meta_info_version_check == MetaInfoVersionCheck(rows)
    IN  IF Len(meta_info_version_check) # 0 THEN "ok"
        ELSE IF meta_info_version_check = <<>> THEN "IndexError"
        ELSE IF Int(meta_info_version_check[1][2]) = v THEN "ok"
        ELSE "NotImplementedError"

\* db_validate_dim_subject, db_validate_fact_session: pass.
DbValidateDimSubject(rows) == "ok"

DbValidateFactSession(rows) == "ok"

CreateAlways(name, init_tables_01) == TRUE

\* first_connection: `if "<name>" not in init_tables_01`.
MustCreate(name, init_tables_01) == name \notin init_tables_01

\* A settings file: each key is absent (<<>>) or has a value (<<value>>).
\* The file itself may be absent, or not be JSON.
Opt(values) == {<<>>} \cup {<<x>> : x \in values}

SettingsFile(file, a, b, c, d) ==
    [file |-> file, database_file |-> a, database_dash_file |-> b,
     version |-> c, theme |-> d]

NoFile == SettingsFile("absent", <<>>, <<>>, <<>>, <<>>)

Malformed == SettingsFile("malformed", <<>>, <<>>, <<>>, <<>>)

SettingsFiles ==
    {NoFile, Malformed} \cup
    {SettingsFile("json", a, b, c, d) :
        a \in Opt({"studytime.db", "my.db"}),
        b \in Opt({"my.db", "other.db"}),
        c \in Opt(Versions),
        d \in Opt({"unipd-dark", "unipd-light"})}

Failed(error) ==
    [status |-> error, database_file |-> <<>>, version |-> <<>>,
     theme |-> <<>>]

\* Config.__init__.  A missing file gives the empty dict; a file that is not
\* JSON raises; the value for database_file is read under the key
\* "database-file", which raises KeyError when that key is not there.
ConfigOf(f) ==
    IF f.file = "malformed" THEN Failed("JSONDecodeError")
    ELSE IF f.database_file # <<>> /\ f.database_dash_file = <<>>
    THEN Failed("KeyError")
    ELSE [status |-> "ok",
          database_file |-> IF f.database_file = <<>>
                            THEN <<"studytime.db">>
                            ELSE f.database_dash_file,
          version |-> IF f.version = <<>>
                      THEN <<DefaultVersion>> ELSE f.version,
          theme |-> IF f.theme = <<>>
                    THEN <<"unipd-dark">> ELSE f.theme]

\* StudyTimeApp.on_mount, Config(): the settings file is whatever the user
\* left beside the program for this run; an exception ends the program.
LoadConfig ==
    /\ screen = "off"
    /\ \E f \in SettingsFiles :
        /\ raw_settings' = f
        /\ config' = ConfigOf(f)
        /\ IF ConfigOf(f).status = "ok"
           THEN /\ version' = ConfigOf(f).version[1]
                /\ screen' = "off"
           ELSE /\ screen' = "failed"
                /\ UNCHANGED version
    /\ last' = Last("config", <<>>)
    /\ notice' = "none"
    /\ UNCHANGED <<store, table, hi, sort_priority, clock, renamed>>

\* Database.__init__ and first_connection, run from StudyTimeApp.on_mount.
\* An exception raised by a validation ends the program before the tables
\* after it are looked at.
DatabaseInit ==
    /\ screen = "off"
    /\ LET v == version
            init_tables_01 == tables
            meta == IF MustCreate("meta_info", init_tables_01) THEN "ok"
                    ELSE DbValidateMetaInfo(meta_info, v)
            subj == IF MustCreate("dim_subject", init_tables_01) THEN "ok"
                    ELSE DbValidateDimSubject(dim_subject)
            sess == IF MustCreate("fact_session", init_tables_01) THEN "ok"
                    ELSE DbValidateFactSession(fact_session)
        IN  IF meta # "ok"
            THEN /\ screen' = "failed"
                 /\ UNCHANGED store
            ELSE /\ meta_info' =
                       IF MustCreate("meta_info", init_tables_01)
                       THEN DbWriteMetaInfo(v) ELSE meta_info
                 /\ dim_subject' =
                       IF MustCreate("dim_subject", init_tables_01)
                       THEN <<>> ELSE dim_subject
                 /\ fact_session' =
                       IF MustCreate("fact_session", init_tables_01)
                       THEN <<>> ELSE fact_session
                 /\ tables' = init_tables_01 \cup RequiredTables
                 /\ screen' = IF subj = "ok" /\ sess = "ok"
                              THEN "MainMenu" ELSE "failed"
    /\ last' = Last("start", <<>>)
    /\ notice' = "none"
    /\ UNCHANGED <<settings, version, table, hi, sort_priority, clock, renamed>>

\* ConfirmExitScreen "quit" (or the Q binding): the program ends; the store
\* file stays for the next run.
Quit ==
    /\ screen \in {"MainMenu", "failed"}
    /\ screen' = "off"
    /\ last' = Last("quit", <<>>)
    /\ notice' = "none"
    /\ UNCHANGED <<settings, store, version, table, hi, sort_priority, clock, renamed>>

-----------------------------------------------------------------------------
(* The subjects table: SubjectsScreen *)

\* The "-" shown for a subject never edited; a time t is shown as <<t>>.
Dash == <<>>

\* SubjectEditEntry.to_ui, with the row key first.
ToUi(row) ==
    [key      |-> row.subject_id,
     Subject  |-> row.subject_name,
     Added    |-> row.added_time,
     LastEdit |-> IF row.added_time # row.updated_time
                  THEN <<row.updated_time>> ELSE Dash]

\* refresh_table: clear the table and add one row per row of
\* SELECT subject_id, subject_name, added_time, updated_time FROM dim_subject.
RefreshTable(rows) == [i \in 1..Len(rows) |-> ToUi(rows[i])]

\* sort_priority: reactive(None)
None == <<>>

NoHi == [set |-> FALSE, row |-> 0, key |-> 0, name |-> <<>>]

\* on_data_table_row_highlighted for the row at position i of the table:
\* the key of the row and the content of its "Subject" cell are remembered.
OnRowHighlighted(tbl, i) ==
    [set |-> TRUE, row |-> i, key |-> tbl[i].key, name |-> tbl[i].Subject]

\* DataTable.clear puts the cursor back on the first line, and the first
\* add_row after it posts RowHighlighted for that line; an empty table posts
\* nothing and the attributes stay as they are.
HighlightAfterRefresh(tbl, old) ==
    IF tbl = <<>> THEN old ELSE OnRowHighlighted(tbl, 1)

\* MainMenuScreen.on_list_view_selected, case 1: a new SubjectsScreen is
\* installed and mounted (on_mount calls refresh_table).
OpenSubjects ==
    /\ screen = "MainMenu"
    /\ screen' = "Subjects"
    /\ table' = RefreshTable(dim_subject)
    /\ hi' = HighlightAfterRefresh(RefreshTable(dim_subject), NoHi)
    /\ sort_priority' = None
    /\ last' = Last("open", <<>>)
    /\ notice' = "none"
    /\ UNCHANGED <<settings, store, version, clock, renamed>>

\* SubjectsScreen.action_back_to_main_menu: the screen is uninstalled.
BackToMainMenu ==
    /\ screen = "Subjects"
    /\ screen' = "MainMenu"
    /\ table' = <<>>
    /\ hi' = NoHi
    /\ sort_priority' = None
    /\ last' = Last("back", <<>>)
    /\ notice' = "none"
    /\ UNCHANGED <<settings, store, version, clock, renamed>>

\* The user moves the cursor of the table to another line.
RowHighlighted ==
    /\ screen = "Subjects"
    /\ \E i \in 1..Len(table) :
        /\ ~(hi.set /\ hi.row = i)
        /\ hi' = OnRowHighlighted(table, i)
    /\ last' = Last("highlight", <<>>)
    /\ notice' = "none"
    /\ UNCHANGED <<settings, store, version, screen, table, sort_priority, clock, renamed>>

\* action_add_subject
ActionAddSubject ==
    /\ screen = "Subjects"
    /\ screen' = "Add"
    /\ last' = Last("add_open", <<>>)
    /\ notice' = "none"
    /\ UNCHANGED <<settings, store, version, table, hi, sort_priority, clock, renamed>>

\* action_edit_subject: EditSubjectScreen.compose reads current_hi_row_name,
\* an attribute that exists only once a row has been highlighted.
ActionEditSubject ==
    /\ screen = "Subjects"
    /\ screen' = IF hi.set THEN "Edit" ELSE "Crashed"
    /\ last' = Last("edit_open", <<>>)
    /\ notice' = "none"
    /\ UNCHANGED <<settings, store, version, table, hi, sort_priority, clock, renamed>>

\* Python's order on the characters of the model (code points).
CharRank(c) == CASE c = " " -> 0 [] c = "A" -> 1 [] c = "a" -> 2 [] OTHER -> 3

RECURSIVE StrLess(_, _)
StrLess(s, t) ==
    IF t = <<>> THEN FALSE
    ELSE IF s = <<>> THEN TRUE
    ELSE IF Head(s) = Head(t) THEN StrLess(Tail(s), Tail(t))
    ELSE CharRank(Head(s)) < CharRank(Head(t))

\* The order of the cells of one column: names as strings, times by their
\* ISO text, "-" before every time.
CellLess(col, r1, r2) ==
    CASE col = "Subject" -> StrLess(r1.Subject, r2.Subject)
      [] col = "Added" -> r1.Added < r2.Added
      [] col = "Last edit" ->
            IF r2.LastEdit = Dash THEN FALSE
            ELSE IF r1.LastEdit = Dash THEN TRUE
            ELSE r1.LastEdit[1] < r2.LastEdit[1]

CellEq(col, r1, r2) ==
    CASE col = "Subject" -> r1.Subject = r2.Subject
      [] col = "Added" -> r1.Added = r2.Added
      [] col = "Last edit" -> r1.LastEdit = r2.LastEdit

\* DataTable.sort(*columns): a stable sort of the rows by the tuple of the
\* cells of the columns.
SortTable(tbl, columns) ==
    LET n == Len(tbl)
        less(i, j) ==
            \/ CellLess(columns[1], tbl[i], tbl[j])
            \/ /\ CellEq(columns[1], tbl[i], tbl[j])
               /\ CellLess(columns[2], tbl[i], tbl[j])
        before(i, j) == less(i, j) \/ (~less(j, i) /\ i < j)
        pos(i) == 1 + Cardinality({j \in 1..n : before(j, i)})
    IN  [p \in 1..n |-> tbl[CHOOSE i \in 1..n : pos(i) = p]]

\* A match whose last case goes back to the unsorted state.
NextSortPriorityToNone(sp) ==
    CASE sp = None -> <<"Subject", "Added">>
      [] sp = <<"Subject", "Added">> -> <<"Added", "Subject">>
      [] sp = <<"Added", "Subject">> -> <<"Last edit", "Subject">>
      [] sp = <<"Last edit", "Subject">> -> None

\* action_sort_table: the match on sort_priority.
NextSortPriority(sp) ==
    CASE sp = None -> <<"Subject", "Added">>
      [] sp = <<"Subject", "Added">> -> <<"Added", "Subject">>
      [] sp = <<"Added", "Subject">> -> <<"Last edit", "Subject">>
      [] sp = <<"Last edit", "Subject">> -> <<"Subject", "Added">>

\* action_sort_table; the cursor stays on its line and no row is highlighted
\* anew.
ActionSortTable ==
    /\ screen = "Subjects"
    /\ sort_priority' = NextSortPriority(sort_priority)
    /\ table' = SortTable(table, sort_priority')
    /\ last' = Last("sort", sort_priority)
    /\ notice' = "Sorted"
    /\ UNCHANGED <<settings, store, version, screen, hi, clock, renamed>>

\* The "d" binding names the action delete_subject; SubjectsScreen (and
\* every class of the program) has no action_delete_subject, so the key
\* press is dispatched to no method: nothing is deleted, nothing is shown.
ActionDeleteSubject ==
    /\ screen = "Subjects"
    /\ last' = Last("delete", <<>>)
    /\ notice' = "none"
    /\ UNCHANGED <<settings, store, version, screen, table, hi, sort_priority, clock, renamed>>

-----------------------------------------------------------------------------
(* AddSubjectScreen *)

\* {x[0] for x in SELECT subject_id FROM dim_subject}
SubjectIds(rows) == {rows[i].subject_id : i \in 1..Len(rows)}

\* {x[0].lower() for x in SELECT subject_name FROM dim_subject}
SubjectNames(rows) == {Lower(rows[i].subject_name) : i \in 1..Len(rows)}

NameTakenExact(name, rows) ==
    name \in {rows[i].subject_name : i \in 1..Len(rows)}

\* new_subject_name.lower() in subject_names
NameTaken(name, rows) == Lower(name) \in SubjectNames(rows)

Uuid4NoCheck(subject_ids) == Ids

\* str(uuid4()), drawn again while it is in subject_ids: any identifier
\* that is not in subject_ids.
Uuid4(subject_ids) == Ids \ subject_ids

\* The row of INSERT INTO dim_subject VALUES(?, ?, ?, ?).
NewRow(id, name, now) ==
    [subject_id |-> id, subject_name |-> name,
     added_time |-> now, updated_time |-> now]

\* AddSubjectScreen.on_input_submitted (Enter in the Input, or the Done
\* button through action_submit).
AddSubjectSubmitted ==
    /\ screen = "Add"
    /\ \E value \in Inputs :
        LET new_subject_name == Strip(value)
        IN  /\ last' = Last("add", value)
            /\ IF new_subject_name = <<>>
               THEN /\ notice' = "EmptyName"
                    /\ UNCHANGED <<store, screen, table, hi, clock, renamed>>
               ELSE IF NameTaken(new_subject_name, dim_subject)
               THEN /\ notice' = "DuplicateName"
                    /\ UNCHANGED <<store, screen, table, hi, clock, renamed>>
               ELSE /\ Len(dim_subject) < MaxSubjects
                    /\ clock < MaxTime
                    /\ \E new_subject_id \in Uuid4(SubjectIds(dim_subject)) :
                        dim_subject' = Append(dim_subject,
                            NewRow(new_subject_id, new_subject_name, clock + 1))
                    /\ clock' = clock + 1
                    /\ notice' = "none"
                    /\ screen' = "Subjects"
                    /\ table' = RefreshTable(dim_subject')
                    /\ hi' = HighlightAfterRefresh(RefreshTable(dim_subject'), hi)
                    /\ UNCHANGED <<tables, meta_info, fact_session, renamed>>
    /\ UNCHANGED <<settings, version, sort_priority>>

\* The Cancel button, or the escape key: pop_screen.
AddSubjectCancelled ==
    /\ screen = "Add"
    /\ screen' = "Subjects"
    /\ last' = Last("add_cancel", <<>>)
    /\ notice' = "none"
    /\ UNCHANGED <<settings, store, version, table, hi, sort_priority, clock, renamed>>

-----------------------------------------------------------------------------
(* EditSubjectScreen *)

\* new_subject_name == get_screen("Edit-Subjects").current_hi_row_name
SameAsPrevious(name, h, rows) == name = h.name

UpdateNameOnly(rows, name, now, key) ==
    [i \in 1..Len(rows) |->
        IF rows[i].subject_id = key
        THEN [rows[i] EXCEPT !.subject_name = name]
        ELSE rows[i]]

UpdateEveryRow(rows, name, now, key) ==
    [i \in 1..Len(rows) |->
        [rows[i] EXCEPT !.subject_name = name, !.updated_time = now]]

\* UPDATE dim_subject SET subject_name = ?, updated_time = ? WHERE subject_id = ?
UpdateSubject(rows, name, now, key) ==
    [i \in 1..Len(rows) |->
        IF rows[i].subject_id = key
        THEN [rows[i] EXCEPT !.subject_name = name, !.updated_time = now]
        ELSE rows[i]]

\* history: the name stored for the subject with this key.
StoredName(rows, key) ==
    LET i == CHOOSE i \in 1..Len(rows) : rows[i].subject_id = key
    IN  rows[i].subject_name

\* update_cell(key, "Subject", result); update_cell(key, "Last edit", time)
UpdateCells(tbl, name, now, key) ==
    [i \in 1..Len(tbl) |->
        IF tbl[i].key = key
        THEN [tbl[i] EXCEPT !.Subject = name, !.LastEdit = <<now>>]
        ELSE tbl[i]]

\* EditSubjectScreen.on_input_submitted; an accepted name dismisses the
\* dialog with it, which runs action_edit_subject.db_edit_row(result).
EditSubjectSubmitted ==
    /\ screen = "Edit"
    /\ \E value \in Inputs :
        LET new_subject_name == Strip(value)
        IN  /\ last' = Last("edit", value)
            /\ IF new_subject_name = <<>>
               THEN /\ notice' = "EmptyName"
                    /\ UNCHANGED <<store, screen, table, hi, clock, renamed>>
               ELSE IF SameAsPrevious(new_subject_name, hi, dim_subject)
               THEN /\ notice' = "NoChange"
                    /\ UNCHANGED <<store, screen, table, hi, clock, renamed>>
               ELSE IF NameTaken(new_subject_name, dim_subject)
               THEN /\ notice' = "DuplicateName"
                    /\ UNCHANGED <<store, screen, table, hi, clock, renamed>>
               ELSE /\ clock < MaxTime
                    /\ clock' = clock + 1
                    /\ dim_subject' = UpdateSubject(dim_subject,
                            new_subject_name, clock + 1, hi.key)
                    /\ table' = UpdateCells(table,
                            new_subject_name, clock + 1, hi.key)
                    /\ notice' = "none"
                    /\ screen' = "Subjects"
                    /\ renamed' = [from |-> StoredName(dim_subject, hi.key),
                                    at |-> clock + 1]
                    /\ UNCHANGED <<tables, meta_info, fact_session, hi>>
    /\ UNCHANGED <<settings, version, sort_priority>>

\* Cancel dismissing the dialog with the prefilled name instead of None.
EditSubjectDismissedWithName ==
    /\ screen = "Edit"
    /\ clock < MaxTime
    /\ clock' = clock + 1
    /\ dim_subject' = UpdateSubject(dim_subject, hi.name, clock + 1, hi.key)
    /\ table' = UpdateCells(table, hi.name, clock + 1, hi.key)
    /\ screen' = "Subjects"
    /\ last' = Last("edit_cancel", <<>>)
    /\ notice' = "none"
    /\ renamed' = [from |-> StoredName(dim_subject, hi.key),
                    at |-> clock + 1]
    /\ UNCHANGED <<settings, tables, meta_info, fact_session, version, hi,
                   sort_priority>>

\* The Cancel button (dismiss(None): db_edit_row does nothing), or the
\* escape key (pop_screen).
EditSubjectCancelled ==
    /\ screen = "Edit"
    /\ screen' = "Subjects"
    /\ last' = Last("edit_cancel", <<>>)
    /\ notice' = "none"
    /\ UNCHANGED <<settings, store, version, table, hi, sort_priority, clock, renamed>>

-----------------------------------------------------------------------------
(* Specifications *)

\* A first run: no settings file and no store file yet.
Init ==
    /\ tables = {}
    /\ meta_info = <<>>
    /\ dim_subject = <<>>
    /\ fact_session = <<>>
    /\ raw_settings = NoFile
    /\ config = ConfigOf(NoFile)
    /\ version = DefaultVersion
    /\ screen = "off"
    /\ table = <<>>
    /\ hi = NoHi
    /\ sort_priority = None
    /\ clock = 0
    /\ notice = "none"
    /\ last = Last("none", <<>>)
    /\ renamed = NoRename

Next ==
    \/ DatabaseInit
    \/ OpenSubjects
    \/ BackToMainMenu
    \/ RowHighlighted
    \/ ActionAddSubject
    \/ ActionEditSubject
    \/ AddSubjectSubmitted
    \/ AddSubjectCancelled
    \/ EditSubjectSubmitted
    \/ EditSubjectCancelled

Spec == Init /\ [][Next]_vars

\* The same run, with the sort key of the subjects table.
NextTable ==
    \/ Next
    \/ ActionSortTable

SpecTable == Init /\ [][NextTable]_vars

\* Start-up against a store left by earlier runs: any of the three tables
\* may exist; meta_info, where it exists, holds the row it was seeded with.
StoredSubjects ==
    {<<>>,
     <<NewRow(1, <<"a">>, 1)>>,
     <<NewRow(2, <<"A", "a">>, 1), [NewRow(1, <<"a">>, 2) EXCEPT !.updated_time = 3]>>}

StoredSessions ==
    {<<>>,
     <<[session_id |-> 1, subject_id |-> 1, start_time |-> 2,
        end_time |-> 3, duration |-> 1]>>,
     <<[session_id |-> 2, subject_id |-> 2, start_time |-> 1,
        end_time |-> 2, duration |-> 1],
       [session_id |-> 1, subject_id |-> 1, start_time |-> 3,
        end_time |-> 3, duration |-> 0]>>}

InitSchema ==
    /\ tables \in SUBSET RequiredTables
    /\ meta_info \in IF "meta_info" \in tables
                     THEN {DbWriteMetaInfo(v) : v \in Versions} ELSE {<<>>}
    /\ dim_subject \in IF "dim_subject" \in tables
                       THEN StoredSubjects ELSE {<<>>}
    /\ fact_session \in IF "fact_session" \in tables
                        THEN StoredSessions ELSE {<<>>}
    /\ raw_settings = NoFile
    /\ config = ConfigOf(NoFile)
    /\ version = DefaultVersion
    /\ screen = "off"
    /\ table = <<>>
    /\ hi = NoHi
    /\ sort_priority = None
    /\ clock = 3
    /\ notice = "none"
    /\ last = Last("none", <<>>)
    /\ renamed = NoRename

NextSchema ==
    \/ LoadConfig
    \/ DatabaseInit
    \/ Quit

SpecSchema == InitSchema /\ [][NextSchema]_vars

\* Browsing the subjects of a store left by earlier runs: the keys of the
\* subjects screen that open no dialog.
NextBrowse ==
    \/ DatabaseInit
    \/ OpenSubjects
    \/ BackToMainMenu
    \/ RowHighlighted
    \/ ActionSortTable
    \/ ActionDeleteSubject

SpecBrowse == InitSchema /\ [][NextBrowse]_vars

-----------------------------------------------------------------------------
(* Properties.  The words of the properties are stated on the characters   *)
(* of the names, independently of Strip, Lower and NameTaken above.        *)

AllSpaces(s) == \A i \in 1..Len(s) : s[i] = " "

\* s without its leading and trailing spaces.
Trimmed(s) ==
    IF AllSpaces(s) THEN <<>>
    ELSE LET a == CHOOSE a \in 1..Len(s) :
                    s[a] # " " /\ \A i \in 1..(a - 1) : s[i] = " "
             b == CHOOSE b \in 1..Len(s) :
                    s[b] # " " /\ \A i \in (b + 1)..Len(s) : s[i] = " "
         IN  SubSeq(s, a, b)

\* Equal when compared case-insensitively.
SameLetters(x, y) ==
    /\ Len(x) = Len(y)
    /\ \A i \in 1..Len(x) : x[i] = y[i] \/ {x[i], y[i]} = {"a", "A"}

NameStored(rows, name) ==
    \E i \in 1..Len(rows) : SameLetters(rows[i].subject_name, name)

\* A step of AddSubjectScreen.on_input_submitted / of
\* EditSubjectScreen.on_input_submitted, the input being last'.value.
AddStep == screen = "Add" /\ last'.op = "add"

EditStep == screen = "Edit" /\ last'.op = "edit"

\* C1: in every state reachable by add-subject and edit-subject actions from
\* an empty dim_subject, no two stored subjects have names that are equal
\* when compared case-insensitively.
C1_UniqueNames ==
    \A i, j \in 1..Len(dim_subject) :
        i # j => ~SameLetters(dim_subject[i].subject_name,
                              dim_subject[j].subject_name)

\* Two subjects are stored and the last action was a successful rename.
C1_Witness ==
    /\ Len(dim_subject) = 2
    /\ last.op = "edit"
    /\ notice = "none"
    /\ screen = "Subjects"

\* C2: at start-up with an existing meta_info table, the validation fails
\* fatally exactly when the stored 'Version' differs from the configured
\* version.
C2_VersionCheck ==
    [][(screen = "off" /\ last'.op = "start" /\ "meta_info" \in tables)
        => (screen' = "failed" <=> Int(meta_info[1][2]) # version)]_vars

\* C3: addSubject(name) is rejected as EmptyName exactly when the trimmed
\* name is empty, otherwise as DuplicateName exactly when a stored name
\* equals it case-insensitively, and otherwise it succeeds and stores the
\* trimmed name.
C3_AddOutcome ==
    [][AddStep =>
        LET name == Trimmed(last'.value)
            dup == NameStored(dim_subject, name)
        IN  /\ (notice' = "EmptyName") <=> (name = <<>>)
            /\ (notice' = "DuplicateName") <=> (name # <<>> /\ dup)
            /\ (notice' = "none") <=> (name # <<>> /\ ~dup)
            /\ notice' = "none" =>
                  /\ screen' = "Subjects"
                  /\ Len(dim_subject') = Len(dim_subject) + 1
                  /\ dim_subject'[Len(dim_subject')].subject_name = name
            /\ notice' # "none" =>
                  /\ screen' = "Add"
                  /\ dim_subject' = dim_subject]_vars

\* An input with spaces around it, and in another case than the stored
\* name, was rejected as a duplicate.
C3_Witness ==
    /\ last.op = "add"
    /\ notice = "DuplicateName"
    /\ Trimmed(last.value) # last.value
    /\ \A i \in 1..Len(dim_subject) :
          dim_subject[i].subject_name # Trimmed(last.value)

\* C4: renameSubject is rejected as DuplicateName only when the trimmed new
\* name matches, case-insensitively, the name of a subject other than the
\* one being renamed (so a rename changing only the letter case of the
\* subject's own name is accepted).
C4_DuplicateOnlyOther ==
    [][(EditStep /\ notice' = "DuplicateName")
        => \E i \in 1..Len(dim_subject) :
              /\ dim_subject[i].subject_id # hi.key
              /\ SameLetters(dim_subject[i].subject_name,
                             Trimmed(last'.value))]_vars

\* C5: a rename is rejected as NoChange exactly when the trimmed new name
\* equals the name currently stored for the subject the rename would
\* update, and a NoChange rejection leaves the store unmodified.
C5_NoChange ==
    [][EditStep =>
        /\ (notice' = "NoChange") <=>
              /\ Trimmed(last'.value) # <<>>
              /\ Trimmed(last'.value) = StoredName(dim_subject, hi.key)
        /\ notice' = "NoChange" => store' = store]_vars

\* C6: a rejected add or rename (EmptyName, DuplicateName, NoChange) and a
\* cancelled or escaped dialog leave the store exactly as it was.
C6_RejectedLeavesStore ==
    [][(\/ notice' \in {"EmptyName", "DuplicateName", "NoChange"}
        \/ last'.op \in {"add_cancel", "edit_cancel"})
        => store' = store]_vars

\* A rename was rejected as a duplicate while two subjects were stored.
C6_Witness ==
    /\ last.op = "edit"
    /\ notice = "DuplicateName"
    /\ Len(dim_subject) = 2

\* Subject identifiers are pairwise distinct.
C7_DistinctIds ==
    \A i, j \in 1..Len(dim_subject) :
        i # j => dim_subject[i].subject_id # dim_subject[j].subject_id

\* C7: a successful addSubject inserts exactly one row: its identifier
\* differs from every identifier stored before, its name is the trimmed
\* input and its added_time equals its updated_time; a non-empty name that
\* no stored name matches is accepted; and subject identifiers are pairwise
\* distinct in every reachable state.
C7_AddInserts ==
    /\ []C7_DistinctIds
    /\ [][AddStep =>
            LET n == Len(dim_subject)
                name == Trimmed(last'.value)
            IN  /\ (name # <<>> /\ ~NameStored(dim_subject, name))
                      => notice' = "none"
                /\ notice' = "none" =>
                      /\ Len(dim_subject') = n + 1
                      /\ SubSeq(dim_subject', 1, n) = dim_subject
                      /\ \A i \in 1..n :
                            dim_subject[i].subject_id
                                # dim_subject'[n + 1].subject_id
                      /\ dim_subject'[n + 1].subject_name = name
                      /\ dim_subject'[n + 1].added_time
                            = dim_subject'[n + 1].updated_time]_vars

\* A second subject has just been added, under a name that differs from the
\* first one's.
C7_Witness ==
    /\ last.op = "add"
    /\ notice = "none"
    /\ Len(dim_subject) = 2
    /\ ~SameLetters(dim_subject[1].subject_name, dim_subject[2].subject_name)
    /\ dim_subject[2].subject_name = Trimmed(last.value)

\* C8: after a subject named X is successfully renamed to a
\* case-insensitively different name Y, its updated_time is later than its
\* added_time, no stored name matches X, and, as long as nothing else has
\* been written, addSubject(X) succeeds and addSubject(Y) is rejected as
\* DuplicateName.
C8_RenameFreesName ==
    [][/\ (EditStep /\ notice' = "none"
             /\ ~SameLetters(StoredName(dim_subject, hi.key),
                             Trimmed(last'.value)))
          => /\ \A i \in 1..Len(dim_subject') :
                   dim_subject'[i].subject_id = hi.key
                      => /\ dim_subject'[i].updated_time
                              > dim_subject'[i].added_time
                         /\ dim_subject'[i].subject_name
                              = Trimmed(last'.value)
             /\ ~NameStored(dim_subject', StoredName(dim_subject, hi.key))
       /\ (AddStep /\ renamed # NoRename /\ renamed.at = clock)
          => LET name == Trimmed(last'.value)
                 Y == dim_subject[CHOOSE i \in 1..Len(dim_subject) :
                          dim_subject[i].updated_time = clock].subject_name
             IN  /\ SameLetters(name, renamed.from)
                    => /\ notice' = "none"
                       /\ dim_subject'[Len(dim_subject')].subject_name = name
                       /\ Len(dim_subject') = Len(dim_subject) + 1
                 /\ SameLetters(name, Y)
                    => /\ notice' = "DuplicateName"
                       /\ dim_subject' = dim_subject]_vars

\* The name freed by a rename has been given to a new subject by the next
\* write.
C8_Witness ==
    /\ last.op = "add"
    /\ notice = "none"
    /\ Len(dim_subject) = 2
    /\ renamed # NoRename
    /\ clock = renamed.at + 1
    /\ dim_subject[1].updated_time = renamed.at
    /\ dim_subject[1].updated_time > dim_subject[1].added_time
    /\ dim_subject[2].added_time = clock
    /\ SameLetters(dim_subject[2].subject_name, renamed.from)

\* The new name of the renamed subject has been refused to another one.
C8_WitnessRejected ==
    /\ last.op = "add"
    /\ notice = "DuplicateName"
    /\ renamed # NoRename
    /\ clock = renamed.at
    /\ \E i \in 1..Len(dim_subject) :
          /\ dim_subject[i].updated_time = clock
          /\ SameLetters(dim_subject[i].subject_name, Trimmed(last.value))

\* C9: a successful rename changes only the subject_name and updated_time
\* of the subject it targets; a subject's subject_id and added_time never
\* change, no other step changes a stored row, and a row's updated_time
\* equals its added_time until its first successful rename.
C9_RenameFrame ==
    [][/\ Len(dim_subject') >= Len(dim_subject)
       /\ \A i \in 1..Len(dim_subject') :
            IF i <= Len(dim_subject)
            THEN /\ dim_subject'[i].subject_id = dim_subject[i].subject_id
                 /\ dim_subject'[i].added_time = dim_subject[i].added_time
                 /\ dim_subject'[i] # dim_subject[i]
                       => /\ EditStep
                          /\ notice' = "none"
                          /\ dim_subject[i].subject_id = hi.key
                          /\ dim_subject'[i].subject_name
                                = Trimmed(last'.value)
            ELSE dim_subject'[i].updated_time = dim_subject'[i].added_time
      ]_vars

\* One of two subjects has just been renamed; the other was never edited.
C9_Witness ==
    /\ last.op = "edit"
    /\ notice = "none"
    /\ Len(dim_subject) = 2
    /\ \E i, j \in 1..2 :
          /\ dim_subject[i].updated_time = clock
          /\ dim_subject[i].updated_time # dim_subject[i].added_time
          /\ dim_subject[j].updated_time = dim_subject[j].added_time

\* meta_info, where it exists, holds exactly one row, with key 'Version'.
C10_MetaInfoOneRow ==
    "meta_info" \in tables
        => /\ Len(meta_info) = 1
           /\ meta_info[1][1] = "Version"

\* C10: schema initialization, started with any subset of the three tables
\* present, ends with all three present, creates only the missing ones
\* (meta_info with the single row ("Version", configured version)) and
\* leaves the present ones and their rows untouched; meta_info, once it
\* exists, keeps its single 'Version' row through every later run.
C10_InitIdempotent ==
    /\ []C10_MetaInfoOneRow
    /\ [][(screen = "off" /\ last'.op = "start")
            => /\ tables' = RequiredTables
               /\ IF "meta_info" \in tables
                  THEN meta_info' = meta_info
                  ELSE meta_info' = << <<"Version", Str(version)>> >>
               /\ IF "dim_subject" \in tables
                  THEN dim_subject' = dim_subject
                  ELSE dim_subject' = <<>>
               /\ IF "fact_session" \in tables
                  THEN fact_session' = fact_session
                  ELSE fact_session' = <<>>]_vars
    /\ [][tables \subseteq tables'
            /\ ("meta_info" \in tables => meta_info' = meta_info)]_vars

\* A run that found dim_subject, with rows, and neither of the other two
\* tables.
C10_Witness ==
    /\ last.op = "start"
    /\ last.pre = {"dim_subject"}
    /\ Len(dim_subject) = 2
    /\ tables = RequiredTables
    /\ meta_info = << <<"Version", Str(version)>> >>

\* A second run, under the same configured version, on the store the first
\* one left.
C10_WitnessSecondRun ==
    /\ last.op = "start"
    /\ last.pre = RequiredTables
    /\ Int(meta_info[1][2]) = version

-----------------------------------------------------------------------------
(* C11: the configuration loader *)

\* What a setting resolves to: the file's value for its key, else its default.
Resolved(value, default) == IF value = <<>> THEN <<default>> ELSE value

\* C11: once the configuration has been loaded from a settings file that is
\* absent or is JSON with any of the keys database_file, version and theme,
\* loading has not failed, and each setting has the file's value for its key
\* when the key is there and its default (studytime.db, 1, unipd-dark) when
\* it is not, whatever the other keys are.
C11_ConfigResolves ==
    (last.op = "config" /\ raw_settings.file # "malformed")
        => /\ config.status = "ok"
           /\ config.database_file =
                  Resolved(raw_settings.database_file, "studytime.db")
           /\ config.version = Resolved(raw_settings.version, DefaultVersion)
           /\ config.theme = Resolved(raw_settings.theme, "unipd-dark")

-----------------------------------------------------------------------------
(* C12: deleting a subject *)

\* The sessions of the store that reference no stored subject.
Orphans(subjects, sessions) ==
    {j \in 1..Len(sessions) :
        sessions[j].subject_id \notin
            {subjects[i].subject_id : i \in 1..Len(subjects)}}

\* C12: the delete-subject action on the highlighted subject removes, in
\* that one step, the subject and every session whose subject_id is its id:
\* afterwards no row of dim_subject has that id, no session references it,
\* and a store without orphan sessions before has none after.
C12_DeleteCascades ==
    [][(screen = "Subjects" /\ hi.set /\ last'.op = "delete")
        => /\ \A i \in 1..Len(dim_subject') :
                dim_subject'[i].subject_id # hi.key
           /\ \A j \in 1..Len(fact_session') :
                fact_session'[j].subject_id # hi.key
           /\ (Orphans(dim_subject, fact_session) = {}
                => Orphans(dim_subject', fact_session') = {})]_vars

-----------------------------------------------------------------------------
(* C13: the sort state of the subjects table *)

\* The sort state after k presses of "sort" from the state sp.
RECURSIVE Presses(_, _)
Presses(sp, k) == IF k = 0 THEN sp ELSE NextSortPriority(Presses(sp, k - 1))

\* The three orderings, in the order the presses go through them.
Ring == << <<"Subject", "Added">>, <<"Added", "Subject">>,
           <<"Last edit", "Subject">> >>

RingSuccessor(sp) ==
    IF sp = None THEN Ring[1]
    ELSE LET i == CHOOSE j \in 1..Len(Ring) : Ring[j] = sp
         IN  Ring[(i % Len(Ring)) + 1]

\* C13, as claimed: the sort state of the subjects screen is one of four
\* states, the initial one included, and from each of them repeated presses
\* of "sort" come back to it.
C13_RingOfFour ==
    screen = "Subjects"
        => /\ sort_priority \in {None} \cup {Ring[i] : i \in 1..Len(Ring)}
           /\ \E k \in 1..(Len(Ring) + 1) :
                Presses(sort_priority, k) = sort_priority

\* C13, amended: the sort state is the initial unsorted state or one of
\* three orderings; a press moves to the one successor of the state, which is
\* never the initial state; from each of the three orderings three presses
\* come back to it, and no fewer do.
C13_RingOfThree ==
    /\ [](screen = "Subjects"
            => /\ sort_priority \in {None} \cup {Ring[i] : i \in 1..Len(Ring)}
               /\ (sort_priority # None
                    => /\ Presses(sort_priority, Len(Ring)) = sort_priority
                       /\ \A k \in 1..(Len(Ring) - 1) :
                            Presses(sort_priority, k) # sort_priority))
    /\ [][(screen = "Subjects" /\ last'.op = "sort")
            => /\ sort_priority' = RingSuccessor(sort_priority)
               /\ sort_priority' # None
               /\ last'.value = sort_priority]_vars

\* The press that closes the ring: from "Last edit" back to "Subject".
C13_Witness ==
    /\ screen = "Subjects"
    /\ last.op = "sort"
    /\ last.value = Ring[Len(Ring)]
    /\ sort_priority = Ring[1]
    /\ Len(table) = 2

-----------------------------------------------------------------------------
(* C14: the subjects table and the store *)

\* The line of the table shows the stored row.
Shows(line, row) ==
    /\ line.key = row.subject_id
    /\ line.Subject = row.subject_name
    /\ line.Added = row.added_time
    /\ \/ row.updated_time # row.added_time
          /\ line.LastEdit = <<row.updated_time>>
       \/ row.updated_time = row.added_time
          /\ line.LastEdit = Dash

\* The lines of the table and the rows of dim_subject, one to one.
TableShowsStore ==
    /\ Len(table) = Len(dim_subject)
    /\ \A i \in 1..Len(dim_subject) :
        /\ Cardinality({j \in 1..Len(table) :
                            table[j].key = dim_subject[i].subject_id}) = 1
        /\ \E j \in 1..Len(table) : Shows(table[j], dim_subject[i])

\* The remembered key and name are those of a stored subject.
HighlightedIsStored ==
    hi.set => \E i \in 1..Len(dim_subject) :
                 /\ dim_subject[i].subject_id = hi.key
                 /\ dim_subject[i].subject_name = hi.name

\* C14: after every completed add-subject or rename-subject action,
\* successful or rejected, the lines of the subjects table correspond one to
\* one to the rows of dim_subject (key, name, added time, and a last-edit
\* cell showing updated_time when it differs from added_time and "-"
\* otherwise), and the key and name remembered for the highlighted row are
\* those of a subject stored under that name.
C14_TableMatchesStore ==
    last.op \in {"add", "edit"} => (TableShowsStore /\ HighlightedIsStored)

=============================================================================
